---------------------------- MODULE Spec2Model ----------------------------
(***************************************************************************)
(* Model of go-tpc's benchmark orchestration core.                         *)
(*                                                                         *)
(*   execute / executeWorkload     the worker pool, the periodic reporter  *)
(*                                 and the orchestrator that joins them    *)
(*   main                          the shared context globalCtx, the       *)
(*                                 signal listener goroutine and the exit  *)
(*                                 of the process                          *)
(*                                                                         *)
(* Every goroutine is a little program counter; one action is one step of  *)
(* one goroutine (a call of the workload, a channel operation, one branch  *)
(* of a select together with its body).  The calls of the workload         *)
(* (InitThread, Prepare, Cleanup, Run, CleanupThread) are external: the    *)
(* model only counts them and draws their error result from BOOLEAN.       *)
(***************************************************************************)
EXTENDS Integers, Sequences, FiniteSets

(* ------------------------------ bounds --------------------------------- *)

\* largest value of the flag --threads that is explored
MaxThreads == 2
\* largest value of the flag --count that is explored
MaxCount == 3
\* largest number of ticks of the reporter's ticker that is explored
MaxTicks == 1
\* largest number of termination signals the environment delivers
MaxSignals == 2
\* largest value of the flag --acThreads that is explored
MaxAcThreads == 1
\* largest number of createTables calls made in sequence
MaxCalls == 2
\* largest number of statements the database fails, over all the calls
MaxFaults == 1

(* ------------------------- program constants --------------------------- *)

\* ch := make(chan struct{}, 1)
ChCap == 1
\* sc := make(chan os.Signal, 1)
ScCap == 1

VARIABLES
    \* the flags (main.go:29-38) and the phase the subcommand asks for
    action, threads, totalCount, dropData, ignoreError, silence,
    \* main.go: globalCtx is cancelled
    globalCtxDone,
    \* main.go: the signal channel sc (number of buffered signals), the
    \* number of signals the environment has sent so far
    sc, sigSent,
    \* the signal listener goroutine: its position, the signals it has
    \* received from sc, the calls of cancel() it has made, whether the
    \* time.After case of its select fired
    lpc, sigHandled, listenerCancels, timedOut,
    \* the main goroutine and the process
    mpc, proc, exitStatus,
    \* executeWorkload: the orchestrator's position, the loop variable i of
    \* the spawning loop, the WaitGroup counter, outputCancel() was called,
    \* the channel ch (number of buffered values), "Finished" was printed
    opc, spawned, wg, outputCancelled, ch, finished,
    \* the reporter goroutine: its position, the periodic measurement.Output
    \* calls, and the calls of measurement.Output that follow "Finished"
    rpc, ticks, finalOut,
    \* the workers, each a function of the worker's index: position in
    \* execute, loop variable i, and the calls made so far
    wpc, iter, initCalls, ctCalls, prepCalls, cleanCalls, runCalls,
    \* per worker: Run calls that returned an error, execute returned an
    \* error, "execute ... failed" lines printed
    runFails, err, logs,
    \* openDB: the flags driver, acThreads and connParams; the position in
    \* openDB; globalDB and tmpDB ("nil", "open", "closed") and the DSN each
    \* was opened with; the error of Ping (<<>> is nil); the calls of
    \* sql.Open, Ping and Exec(CREATE DATABASE); the arguments of the
    \* SetMaxIdleConns calls made on globalDB
    driver, acThreads, connParams, dbpc, globalDB, globalDSN, tmpDB, tmpDSN,
    pingErr, opens, pings, createDBs, maxIdle,
    \* createTables: the tables of the database; the position in
    \* createTables (0: not inside, k: before the k-th statement); of the
    \* call in progress: the tables and the failures so far when it began,
    \* the tables whose statement was executed,
    \* the lines printed and statements executed in order, the statements
    \* the database failed; the record of every call that returned; the
    \* statements failed so far
    tables, ddlpc, ddlBefore, ddlIssued, ddlLog, ddlFailed, ddlHist, ddlFaults

config == <<action, threads, totalCount, dropData, ignoreError, silence>>
sigVars == <<sc, sigSent, lpc, sigHandled, listenerCancels, timedOut>>
procVars == <<mpc, proc, exitStatus>>
orchVars == <<opc, spawned, wg, outputCancelled, ch, finished>>
repVars == <<rpc, ticks, finalOut>>
callVars == <<initCalls, ctCalls, prepCalls, cleanCalls, runCalls>>
workerVars == <<wpc, iter, callVars, runFails, err, logs>>
dbVars == <<driver, acThreads, connParams, dbpc, globalDB, globalDSN, tmpDB, tmpDSN,
            pingErr, opens, pings, createDBs, maxIdle>>
ddlVars == <<tables, ddlpc, ddlBefore, ddlIssued, ddlLog, ddlFailed, ddlHist, ddlFaults>>
bootVars == <<dbVars, ddlVars>>
executorVars == <<globalCtxDone, sigVars, procVars, orchVars, repVars, workerVars>>

vars == <<config, bootVars, executorVars>>

Workers == 0 .. (threads - 1)

(* ------------------------------- Init ---------------------------------- *)

\* main has reached rootCmd.Execute() and no command has started a phase:
\* globalCtx is live, the listener goroutine waits for its first signal
ExecutorIdle ==
    /\ globalCtxDone = FALSE
    /\ sc = 0 /\ sigSent = 0
    /\ lpc = "recv" /\ sigHandled = 0 /\ listenerCancels = 0 /\ timedOut = FALSE
    /\ mpc = "execute" /\ proc = "running" /\ exitStatus = -1
    /\ opc = "idle" /\ spawned = 0 /\ wg = 0 /\ outputCancelled = FALSE
    /\ ch = 0 /\ finished = FALSE
    /\ rpc = "none" /\ ticks = 0 /\ finalOut = 0
    /\ wpc = [i \in Workers |-> "none"]
    /\ iter = [i \in Workers |-> 0]
    /\ initCalls = [i \in Workers |-> 0]
    /\ ctCalls = [i \in Workers |-> 0]
    /\ prepCalls = [i \in Workers |-> 0]
    /\ cleanCalls = [i \in Workers |-> 0]
    /\ runCalls = [i \in Workers |-> 0]
    /\ runFails = [i \in Workers |-> 0]
    /\ err = [i \in Workers |-> FALSE]
    /\ logs = [i \in Workers |-> 0]

\* openDB is not being called: the package variable globalDB is nil
OpenIdle ==
    /\ driver = "mysql" /\ acThreads = 1 /\ connParams = ""
    /\ dbpc = "idle"
    /\ globalDB = "nil" /\ globalDSN = <<>> /\ tmpDB = "nil" /\ tmpDSN = <<>>
    /\ pingErr = <<>> /\ opens = 0 /\ pings = 0 /\ createDBs = 0
    /\ maxIdle = <<>>

\* createTables is not being called
DDLIdle ==
    /\ tables = {}
    /\ ddlpc = 0 /\ ddlBefore = [tables |-> {}, faults |-> 0]
    /\ ddlIssued = <<>> /\ ddlLog = <<>>
    /\ ddlFailed = <<>> /\ ddlHist = <<>> /\ ddlFaults = 0

\* The state when main reaches rootCmd.Execute(): the flags are parsed,
\* globalCtx is live, the listener goroutine waits for its first signal.
\* A flag that the phase never reads keeps its default (main.go:144-146):
\* execute reads dropData in "prepare" only, and count and ignoreError in
\* the loop of "run" only.  silence ("Don't print error when running
\* workload", main.go:147) is set by the flag and read nowhere.
Init ==
    /\ action \in {"prepare", "cleanup", "run"}
    /\ threads \in 1 .. MaxThreads
    /\ totalCount \in (IF action = "run" THEN 0 .. MaxCount ELSE {0})
    /\ dropData \in (IF action = "prepare" THEN BOOLEAN ELSE {FALSE})
    /\ ignoreError \in (IF action = "run" THEN BOOLEAN ELSE {FALSE})
    /\ silence \in (IF action = "run" THEN BOOLEAN ELSE {FALSE})
    /\ ExecutorIdle
    /\ OpenIdle
    /\ DDLIdle

(* ------------------------------ execute -------------------------------- *)

\* count := totalCount / threads, with a bug that rounds up
CountCeil == (totalCount + threads - 1) \div threads

\* count := totalCount / threads  (Go's integer division; both are >= 0)
count == totalCount \div threads

\* the part of the state a step of a worker leaves alone
WorkerFrame ==
    UNCHANGED <<config, bootVars, globalCtxDone, sigVars, procVars, repVars,
                opc, spawned, outputCancelled, ch, finished>>

\* ctx = w.InitThread(ctx, index); defer w.CleanupThread(ctx, index);
\* then the switch on action selects the first call of the phase
InitThread(i) ==
    /\ proc = "running"
    /\ wpc[i] = "init"
    /\ initCalls' = [initCalls EXCEPT ![i] = @ + 1]
    /\ wpc' = [wpc EXCEPT ![i] =
                  CASE action = "prepare" -> IF dropData THEN "cleanup" ELSE "prepare"
                    [] action = "cleanup" -> "cleanup"
                    [] OTHER -> "loop"]
    /\ UNCHANGED <<iter, ctCalls, prepCalls, cleanCalls, runCalls, runFails, err, logs, wg>>
    /\ WorkerFrame

\* w.Cleanup, with a bug: in "prepare" the error of Cleanup is dropped and
\* Prepare is called all the same
CleanupIgnoresError(i, ok) ==
    /\ proc = "running"
    /\ wpc[i] = "cleanup"
    /\ cleanCalls' = [cleanCalls EXCEPT ![i] = @ + 1]
    /\ err' = [err EXCEPT ![i] = ~ok]
    /\ wpc' = [wpc EXCEPT ![i] = IF action = "prepare" THEN "prepare" ELSE "defer"]
    /\ UNCHANGED <<iter, initCalls, ctCalls, prepCalls, runCalls, runFails, logs, wg>>
    /\ WorkerFrame

\* w.Cleanup(ctx, index): in "prepare" (under dropData) an error returns it
\* and success goes on to Prepare; in "cleanup" its result is returned
Cleanup(i, ok) ==
    /\ proc = "running"
    /\ wpc[i] = "cleanup"
    /\ cleanCalls' = [cleanCalls EXCEPT ![i] = @ + 1]
    /\ err' = [err EXCEPT ![i] = ~ok]
    /\ wpc' = [wpc EXCEPT ![i] =
                  IF ok /\ action = "prepare" THEN "prepare" ELSE "defer"]
    /\ UNCHANGED <<iter, initCalls, ctCalls, prepCalls, runCalls, runFails, logs, wg>>
    /\ WorkerFrame

\* return w.Prepare(ctx, index)
Prepare(i, ok) ==
    /\ proc = "running"
    /\ wpc[i] = "prepare"
    /\ prepCalls' = [prepCalls EXCEPT ![i] = @ + 1]
    /\ err' = [err EXCEPT ![i] = ~ok]
    /\ wpc' = [wpc EXCEPT ![i] = "defer"]
    /\ UNCHANGED <<iter, initCalls, ctCalls, cleanCalls, runCalls, runFails, logs, wg>>
    /\ WorkerFrame

\* for ...; i < count; ... { w.Run(ctx, index) : the call begins.  The
\* loop condition reads i and count only; ctx is handed to Run unread.
RunBegin(i) ==
    /\ proc = "running"
    /\ wpc[i] = "loop"
    /\ iter[i] < count
    /\ runCalls' = [runCalls EXCEPT ![i] = @ + 1]
    /\ wpc' = [wpc EXCEPT ![i] = "inrun"]
    /\ UNCHANGED <<iter, initCalls, ctCalls, prepCalls, cleanCalls, runFails, err, logs, wg>>
    /\ WorkerFrame

\* the loop condition i < count is false: return nil
LoopExit(i) ==
    /\ proc = "running"
    /\ wpc[i] = "loop"
    /\ ~(iter[i] < count)
    /\ wpc' = [wpc EXCEPT ![i] = "defer"]
    /\ UNCHANGED <<iter, callVars, runFails, err, logs, wg>>
    /\ WorkerFrame

\* Run returns, with a bug: an error of Run under the abort policy also
\* cancels the shared context (as an errgroup would)
RunEndCancels(i, ok) ==
    /\ proc = "running"
    /\ wpc[i] = "inrun"
    /\ runFails' = [runFails EXCEPT ![i] = IF ok THEN @ ELSE @ + 1]
    /\ logs' = [logs EXCEPT ![i] = IF ~ok /\ ignoreError THEN @ + 1 ELSE @]
    /\ err' = [err EXCEPT ![i] = ~ok /\ ~ignoreError]
    /\ iter' = [iter EXCEPT ![i] = IF ok \/ ignoreError THEN @ + 1 ELSE @]
    /\ wpc' = [wpc EXCEPT ![i] = IF ok \/ ignoreError THEN "loop" ELSE "defer"]
    /\ globalCtxDone' = (globalCtxDone \/ (~ok /\ ~ignoreError))
    /\ UNCHANGED <<callVars, wg>>
    /\ UNCHANGED <<config, bootVars, sigVars, procVars, repVars,
                   opc, spawned, outputCancelled, ch, finished>>

\* Run returns, with a bug: CleanupThread is called at the normal end of
\* execute instead of being deferred, so the error return skips it
RunEndNoDefer(i, ok) ==
    /\ proc = "running"
    /\ wpc[i] = "inrun"
    /\ runFails' = [runFails EXCEPT ![i] = IF ok THEN @ ELSE @ + 1]
    /\ logs' = [logs EXCEPT ![i] = IF ~ok /\ ignoreError THEN @ + 1 ELSE @]
    /\ err' = [err EXCEPT ![i] = ~ok /\ ~ignoreError]
    /\ iter' = [iter EXCEPT ![i] = IF ok \/ ignoreError THEN @ + 1 ELSE @]
    /\ wpc' = [wpc EXCEPT ![i] = IF ok \/ ignoreError THEN "loop" ELSE "wrap"]
    /\ UNCHANGED <<callVars, wg>>
    /\ WorkerFrame

\* Run returns, with a bug: ignoreError is not consulted, every error of
\* Run is returned
RunEndAlwaysAborts(i, ok) ==
    /\ proc = "running"
    /\ wpc[i] = "inrun"
    /\ runFails' = [runFails EXCEPT ![i] = IF ok THEN @ ELSE @ + 1]
    /\ logs' = logs
    /\ err' = [err EXCEPT ![i] = ~ok]
    /\ iter' = [iter EXCEPT ![i] = IF ok THEN @ + 1 ELSE @]
    /\ wpc' = [wpc EXCEPT ![i] = IF ok THEN "loop" ELSE "defer"]
    /\ UNCHANGED <<callVars, wg>>
    /\ WorkerFrame

\* Run returns.  nil: i++.  An error under ignoreError: print, continue
\* (i++).  An error otherwise: return err.
RunEnd(i, ok) ==
    /\ proc = "running"
    /\ wpc[i] = "inrun"
    /\ runFails' = [runFails EXCEPT ![i] = IF ok THEN @ ELSE @ + 1]
    /\ logs' = [logs EXCEPT ![i] = IF ~ok /\ ignoreError THEN @ + 1 ELSE @]
    /\ err' = [err EXCEPT ![i] = ~ok /\ ~ignoreError]
    /\ iter' = [iter EXCEPT ![i] = IF ok \/ ignoreError THEN @ + 1 ELSE @]
    /\ wpc' = [wpc EXCEPT ![i] = IF ok \/ ignoreError THEN "loop" ELSE "defer"]
    /\ UNCHANGED <<callVars, wg>>
    /\ WorkerFrame

\* the deferred w.CleanupThread(ctx, index) runs as execute returns
CleanupThread(i) ==
    /\ proc = "running"
    /\ wpc[i] = "defer"
    /\ ctCalls' = [ctCalls EXCEPT ![i] = @ + 1]
    /\ wpc' = [wpc EXCEPT ![i] = "wrap"]
    /\ UNCHANGED <<iter, initCalls, prepCalls, cleanCalls, runCalls, runFails, err, logs, wg>>
    /\ WorkerFrame

(* --------------------------- executeWorkload --------------------------- *)

\* the subcommand run by rootCmd.Execute() calls
\* executeWorkload(globalCtx, w, action) for its phase
CommandRun ==
    /\ proc = "running"
    /\ mpc = "execute"
    /\ opc = "idle"
    /\ opc' = "start"
    /\ UNCHANGED <<config, bootVars, globalCtxDone, sigVars, procVars, repVars, workerVars,
                   spawned, wg, outputCancelled, ch, finished>>

\* wg.Add(threads); outputCtx, outputCancel := context.WithCancel(ctx);
\* ch := make(chan struct{}, 1); go func() { the reporter }()
StartWorkload ==
    /\ proc = "running"
    /\ opc = "start"
    /\ wg' = threads
    /\ outputCancelled' = FALSE
    /\ ch' = 0
    /\ rpc' = "loop"
    /\ spawned' = 0
    /\ opc' = "spawn"
    /\ UNCHANGED <<config, bootVars, globalCtxDone, sigVars, procVars, workerVars,
                   finished, ticks, finalOut>>

\* for i := 0; i < threads; i++ { go func(index int) {...}(i) }
SpawnWorker ==
    /\ proc = "running"
    /\ opc = "spawn"
    /\ spawned < threads
    /\ wpc' = [wpc EXCEPT ![spawned] = "init"]
    /\ spawned' = spawned + 1
    /\ UNCHANGED <<config, bootVars, globalCtxDone, sigVars, procVars, repVars,
                   opc, wg, outputCancelled, ch, finished,
                   iter, callVars, runFails, err, logs>>

\* the worker goroutine after execute returned: print the error if there
\* is one, then the deferred wg.Done()
WorkerDone(i) ==
    /\ proc = "running"
    /\ wpc[i] = "wrap"
    /\ logs' = [logs EXCEPT ![i] = IF err[i] THEN @ + 1 ELSE @]
    /\ wg' = wg - 1
    /\ wpc' = [wpc EXCEPT ![i] = "done"]
    /\ UNCHANGED <<iter, callVars, runFails, err>>
    /\ WorkerFrame

\* wg.Wait() returns without waiting for the counter to reach zero
WaitNoJoin ==
    /\ proc = "running"
    /\ opc = "spawn"
    /\ spawned = threads
    /\ opc' = "cancel"
    /\ UNCHANGED <<config, bootVars, globalCtxDone, sigVars, procVars, repVars, workerVars,
                   spawned, wg, outputCancelled, ch, finished>>

\* wg.Wait(): returns once every worker has called wg.Done()
Wait ==
    /\ proc = "running"
    /\ opc = "spawn"
    /\ spawned = threads
    /\ wg = 0
    /\ opc' = "cancel"
    /\ UNCHANGED <<config, bootVars, globalCtxDone, sigVars, procVars, repVars, workerVars,
                   spawned, wg, outputCancelled, ch, finished>>

\* outputCancel()
OutputCancel ==
    /\ proc = "running"
    /\ opc = "cancel"
    /\ outputCancelled' = TRUE
    /\ opc' = "recv"
    /\ UNCHANGED <<config, bootVars, globalCtxDone, sigVars, procVars, repVars, workerVars,
                   spawned, wg, ch, finished>>

\* <-ch, with a bug: the orchestrator goes on without the reporter's
\* acknowledgement
RecvAckNoWait ==
    /\ proc = "running"
    /\ opc = "recv"
    /\ opc' = "finish"
    /\ UNCHANGED <<config, bootVars, globalCtxDone, sigVars, procVars, repVars, workerVars,
                   spawned, wg, outputCancelled, ch, finished>>

\* <-ch
RecvAck ==
    /\ proc = "running"
    /\ opc = "recv"
    /\ ch > 0
    /\ ch' = ch - 1
    /\ opc' = "finish"
    /\ UNCHANGED <<config, bootVars, globalCtxDone, sigVars, procVars, repVars, workerVars,
                   spawned, wg, outputCancelled, finished>>

\* "Finished" is printed and executeWorkload returns without the flush
FinishNoFlush ==
    /\ proc = "running"
    /\ opc = "finish"
    /\ finished' = TRUE
    /\ opc' = "returned"
    /\ UNCHANGED <<config, bootVars, globalCtxDone, sigVars, procVars, workerVars,
                   spawned, wg, outputCancelled, ch, rpc, ticks, finalOut>>

\* fmt.Printf("Finished\n"); measurement.Output(); return
Finish ==
    /\ proc = "running"
    /\ opc = "finish"
    /\ finished' = TRUE
    /\ finalOut' = finalOut + 1
    /\ opc' = "returned"
    /\ UNCHANGED <<config, bootVars, globalCtxDone, sigVars, procVars, workerVars,
                   spawned, wg, outputCancelled, ch, rpc, ticks>>

(* ------------------------------ reporter ------------------------------- *)

\* outputCtx is a child of ctx: done when outputCancel() was called or the
\* parent was cancelled
outputCtxDone == outputCancelled \/ globalCtxDone

\* case <-ticker.C: measurement.Output()
\* (a select with several ready cases picks any of them, so a tick may be
\* taken although outputCtx is done)
Tick ==
    /\ proc = "running"
    /\ rpc = "loop"
    /\ ticks < MaxTicks
    /\ ticks' = ticks + 1
    /\ UNCHANGED <<config, bootVars, globalCtxDone, sigVars, procVars, orchVars, workerVars,
                   rpc, finalOut>>

\* case <-outputCtx.Done(), with a bug: the reporter returns without
\* sending on ch
ReporterStopNoAck ==
    /\ proc = "running"
    /\ rpc = "loop"
    /\ outputCtxDone
    /\ rpc' = "done"
    /\ UNCHANGED <<config, bootVars, globalCtxDone, sigVars, procVars, workerVars,
                   opc, spawned, wg, outputCancelled, ch, finished, ticks, finalOut>>

\* case <-outputCtx.Done(): ch <- struct{}{}; return
ReporterStop ==
    /\ proc = "running"
    /\ rpc = "loop"
    /\ outputCtxDone
    /\ ch < ChCap
    /\ ch' = ch + 1
    /\ rpc' = "done"
    /\ UNCHANGED <<config, bootVars, globalCtxDone, sigVars, procVars, workerVars,
                   opc, spawned, wg, outputCancelled, finished, ticks, finalOut>>

(* -------------------------------- main --------------------------------- *)

\* rootCmd.Execute() has returned; cancel()
MainCancel ==
    /\ proc = "running"
    /\ mpc = "execute"
    /\ opc = "returned"
    /\ globalCtxDone' = TRUE
    /\ mpc' = "return"
    /\ UNCHANGED <<config, bootVars, sigVars, proc, exitStatus, orchVars, repVars, workerVars>>

\* main returns: the process exits with status 0
MainReturn ==
    /\ proc = "running"
    /\ mpc = "return"
    /\ mpc' = "done"
    /\ proc' = "exited"
    /\ exitStatus' = 0
    /\ UNCHANGED <<config, bootVars, globalCtxDone, sigVars, orchVars, repVars, workerVars>>

\* the operating system delivers SIGHUP, SIGINT, SIGTERM or SIGQUIT:
\* signal.Notify's send to sc does not block, a signal that finds the
\* buffer full is dropped
Signal ==
    /\ proc = "running"
    /\ sigSent < MaxSignals
    /\ sigSent' = sigSent + 1
    /\ sc' = IF sc < ScCap THEN sc + 1 ELSE sc
    /\ UNCHANGED <<config, bootVars, globalCtxDone, lpc, sigHandled, listenerCancels, timedOut,
                   procVars, orchVars, repVars, workerVars>>

\* sig := <-sc; fmt.Printf("Got signal ..."); cancel(); enter the select
FirstSignal ==
    /\ proc = "running"
    /\ lpc = "recv"
    /\ sc > 0
    /\ sc' = sc - 1
    /\ sigHandled' = sigHandled + 1
    /\ listenerCancels' = listenerCancels + 1
    /\ globalCtxDone' = TRUE
    /\ lpc' = "select"
    /\ UNCHANGED <<config, bootVars, sigSent, timedOut, procVars, orchVars, repVars, workerVars>>

\* the second signal, with a bug: the listener handles every signal the
\* way it handles the first (cancel() again) before it exits
SecondSignalCancels ==
    /\ proc = "running"
    /\ lpc = "select"
    /\ sc > 0
    /\ sc' = sc - 1
    /\ sigHandled' = sigHandled + 1
    /\ listenerCancels' = listenerCancels + 1
    /\ lpc' = "exit"
    /\ proc' = "exited"
    /\ exitStatus' = 1
    /\ UNCHANGED <<config, bootVars, globalCtxDone, sigSent, timedOut, mpc,
                   orchVars, repVars, workerVars>>

\* the second signal, with a bug: the goroutine returns instead of
\* calling os.Exit(1)
SecondSignalReturns ==
    /\ proc = "running"
    /\ lpc = "select"
    /\ sc > 0
    /\ sc' = sc - 1
    /\ sigHandled' = sigHandled + 1
    /\ lpc' = "returned"
    /\ UNCHANGED <<config, bootVars, globalCtxDone, sigSent, listenerCancels, timedOut, procVars,
                   orchVars, repVars, workerVars>>

\* case <-sc: fmt.Printf("Got signal ... again"); os.Exit(1)
SecondSignal ==
    /\ proc = "running"
    /\ lpc = "select"
    /\ sc > 0
    /\ sc' = sc - 1
    /\ sigHandled' = sigHandled + 1
    /\ lpc' = "exit"
    /\ proc' = "exited"
    /\ exitStatus' = 1
    /\ UNCHANGED <<config, bootVars, globalCtxDone, sigSent, listenerCancels, timedOut, mpc,
                   orchVars, repVars, workerVars>>

\* the timeout, with a bug: the goroutine prints and returns instead of
\* calling os.Exit(1)
TimeoutReturns ==
    /\ proc = "running"
    /\ lpc = "select"
    /\ timedOut' = TRUE
    /\ lpc' = "returned"
    /\ UNCHANGED <<config, bootVars, globalCtxDone, sc, sigSent, sigHandled, listenerCancels,
                   procVars, orchVars, repVars, workerVars>>

\* case <-time.After(10 * time.Second): fmt.Print("Wait 10s ..."); os.Exit(1)
\* (time is not measured: the timer may fire at any moment of the select)
Timeout ==
    /\ proc = "running"
    /\ lpc = "select"
    /\ timedOut' = TRUE
    /\ lpc' = "exit"
    /\ proc' = "exited"
    /\ exitStatus' = 1
    /\ UNCHANGED <<config, bootVars, globalCtxDone, sc, sigSent, sigHandled, listenerCancels, mpc,
                   orchVars, repVars, workerVars>>

\* The third case of the select, case <-closeDone: return, never fires:
\* nothing in the program sends on closeDone (main.go:173 is its only other
\* use), so it is no action of the model.

(* ----------------------------- specification --------------------------- *)

Next ==
    \/ CommandRun
    \/ StartWorkload
    \/ SpawnWorker
    \/ \E i \in Workers : InitThread(i)
    \/ \E i \in Workers : \E ok \in BOOLEAN : Cleanup(i, ok)
    \/ \E i \in Workers : \E ok \in BOOLEAN : Prepare(i, ok)
    \/ \E i \in Workers : RunBegin(i)
    \/ \E i \in Workers : LoopExit(i)
    \/ \E i \in Workers : \E ok \in BOOLEAN : RunEnd(i, ok)
    \/ \E i \in Workers : CleanupThread(i)
    \/ \E i \in Workers : WorkerDone(i)
    \/ Wait
    \/ OutputCancel
    \/ RecvAck
    \/ Finish
    \/ Tick
    \/ ReporterStop
    \/ MainCancel
    \/ MainReturn
    \/ Signal
    \/ FirstSignal
    \/ SecondSignal
    \/ Timeout

Spec == Init /\ [][Next]_vars

\* one step of the goroutine of worker i
WorkerStep(i) ==
    /\ i \in Workers
    /\ \/ InitThread(i)
       \/ \E ok \in BOOLEAN : Cleanup(i, ok)
       \/ \E ok \in BOOLEAN : Prepare(i, ok)
       \/ RunBegin(i)
       \/ LoopExit(i)
       \/ \E ok \in BOOLEAN : RunEnd(i, ok)
       \/ CleanupThread(i)
       \/ WorkerDone(i)

\* one step of the goroutine that runs the command and executeWorkload
OrchestratorStep ==
    CommandRun \/ StartWorkload \/ SpawnWorker \/ Wait \/ OutputCancel \/ RecvAck \/ Finish

\* one step of a goroutine of executeWorkload: the orchestrator, a worker,
\* or the reporter taking case <-outputCtx.Done().  The ticker's case is
\* left out: no tick has to come.
WorkloadStep ==
    \/ OrchestratorStep
    \/ \E i \in Workers : WorkerStep(i)
    \/ ReporterStop

(* ------------------------------- openDB -------------------------------- *)

\* const mysqlDriver, pgDriver
mysqlDriver == "mysql"
pgDriver == "postgres"
\* a value of --driver that is neither
otherDriver == "oracle"

\* the defaults of the flags --user, --password, --host, --port, --db
user == "root"
password == ""
host == "127.0.0.1"
port == "4000"
dbName == "test"

\* const createDBDDL
createDBDDL == "CREATE DATABASE "

\* the drivers registered with database/sql by the blank imports
RegisteredDrivers == {mysqlDriver, pgDriver}

\* A string is the sequence of the pieces it is put together from.
\* buildDSN(tmp): the result is [panic |-> TRUE] where the code panics
buildDSN(tmp) ==
    CASE driver = mysqlDriver ->
           IF tmp
           THEN [panic |-> FALSE,
                 dsn |-> <<user, ":", password, "@tcp(", host, ":", port, ")/">>]
           ELSE [panic |-> FALSE,
                 dsn |-> <<user, ":", password, "@tcp(", host, ":", port, ")/",
                           dbName, "?multiStatements=true">>
                         \o (IF connParams # "" THEN <<"&", connParams>> ELSE <<>>)]
      [] driver = pgDriver ->
           IF tmp
           THEN [panic |-> FALSE,
                 dsn |-> <<"postgres://", user, ":", password, "@", host, ":", port,
                           "/?", connParams>>]
           ELSE [panic |-> FALSE,
                 dsn |-> <<"postgres://", user, ":", password, "@", host, ":", port,
                           "/", dbName>>
                         \o (IF connParams # "" THEN <<"?", connParams>> ELSE <<>>)]
      [] OTHER -> [panic |-> TRUE, dsn |-> <<>>]

\* the error messages Ping may return, each the sequence of its pieces
MysqlUnknownDB == <<"Error 1049: ", "Unknown database", " 'test'">>
MysqlDenied == <<"Error 1045: ", "Access denied for user", " 'root'@'127.0.0.1'">>
PgNoDatabase == <<"pq: database", " 'test' ", "does not exist">>
PgNoRole == <<"pq: role", " 'root' ", "does not exist">>
Refused == <<"dial tcp 127.0.0.1:4000: connect: ", "connection refused">>

\* what Ping can answer with the driver in use (<<>> is nil)
PingResults ==
    IF driver = mysqlDriver
    THEN {<<>>, MysqlUnknownDB, MysqlDenied, Refused}
    ELSE {<<>>, PgNoDatabase, PgNoRole, Refused}

\* strings.Contains, strings.HasPrefix, strings.HasSuffix on such messages
Contains(msg, piece) == \E k \in 1 .. Len(msg) : msg[k] = piece
HasPrefix(msg, piece) == Len(msg) > 0 /\ msg[1] = piece
HasSuffix(msg, piece) == Len(msg) > 0 /\ msg[Len(msg)] = piece

\* isDBNotExist(err)
isDBNotExist(e) ==
    IF e = <<>> THEN FALSE
    ELSE CASE driver = mysqlDriver -> Contains(e, "Unknown database")
           [] driver = pgDriver ->
                  HasPrefix(e, "pq: database") /\ HasSuffix(e, "does not exist")
           [] OTHER -> FALSE

\* a step of openDB leaves the executor and createTables alone
OpenFrame == UNCHANGED <<config, executorVars, ddlVars, driver, acThreads, connParams>>

\* openDB begins, with a bug: neither the panic of buildDSN nor the error
\* of sql.Open stops it
OpenDBUnchecked ==
    /\ dbpc = "call"
    /\ globalDB' = "open"
    /\ globalDSN' = buildDSN(FALSE).dsn
    /\ opens' = opens + 1
    /\ dbpc' = "ping"
    /\ UNCHANGED <<tmpDB, tmpDSN, pingErr, pings, createDBs, maxIdle>>
    /\ OpenFrame

\* globalDB, err = sql.Open(driver, buildDSN(false)); if err != nil { panic }
\* buildDSN is evaluated first and panics on an unknown driver; sql.Open
\* fails on a driver that is not registered and connects to nothing
OpenDB ==
    /\ dbpc = "call"
    /\ IF buildDSN(FALSE).panic \/ driver \notin RegisteredDrivers
       THEN /\ dbpc' = "panicked"
            /\ UNCHANGED <<globalDB, globalDSN, opens>>
       ELSE /\ globalDB' = "open"
            /\ globalDSN' = buildDSN(FALSE).dsn
            /\ opens' = opens + 1
            /\ dbpc' = "ping"
    /\ UNCHANGED <<tmpDB, tmpDSN, pingErr, pings, createDBs, maxIdle>>
    /\ OpenFrame

\* Ping and what follows, with a bug: globalDB is left as it is when the
\* database cannot be reached
PingKeepsPool(e) ==
    /\ dbpc = "ping"
    /\ pings' = pings + 1
    /\ pingErr' = e
    /\ maxIdle' = IF e = <<>> THEN Append(maxIdle, threads + acThreads + 1) ELSE maxIdle
    /\ dbpc' = IF e # <<>> /\ isDBNotExist(e) THEN "create" ELSE "returned"
    /\ UNCHANGED <<globalDB, globalDSN, tmpDB, tmpDSN, opens, createDBs>>
    /\ OpenFrame

\* err := globalDB.Ping().  nil: SetMaxIdleConns(threads + acThreads + 1).
\* "database does not exist": go on to create it.  Any other error:
\* globalDB = nil.
Ping(e) ==
    /\ dbpc = "ping"
    /\ pings' = pings + 1
    /\ pingErr' = e
    /\ maxIdle' = IF e = <<>> THEN Append(maxIdle, threads + acThreads + 1) ELSE maxIdle
    /\ globalDB' = IF e # <<>> /\ ~isDBNotExist(e) THEN "nil" ELSE globalDB
    /\ dbpc' = IF e # <<>> /\ isDBNotExist(e) THEN "create" ELSE "returned"
    /\ UNCHANGED <<globalDSN, tmpDB, tmpDSN, opens, createDBs>>
    /\ OpenFrame

\* tmpDB, _ = sql.Open(driver, buildDSN(true)); defer tmpDB.Close();
\* tmpDB.Exec(createDBDDL + dbName): an error panics, success returns
CreateDatabase(ok) ==
    /\ dbpc = "create"
    /\ opens' = opens + 1
    /\ tmpDSN' = buildDSN(TRUE).dsn
    /\ createDBs' = createDBs + 1
    /\ tmpDB' = "closed"
    /\ dbpc' = IF ok THEN "returned" ELSE "panicked"
    /\ UNCHANGED <<globalDB, globalDSN, pingErr, pings, maxIdle>>
    /\ OpenFrame

\* a command calls openDB() with the flags it was given
OpenInit ==
    /\ action = "run" /\ threads \in 1 .. MaxThreads /\ totalCount = 0
    /\ dropData = FALSE /\ ignoreError = FALSE /\ silence = FALSE
    /\ ExecutorIdle
    /\ DDLIdle
    /\ driver \in {mysqlDriver, pgDriver, otherDriver}
    /\ acThreads \in 0 .. MaxAcThreads
    /\ connParams \in {"", "sslmode=disable"}
    /\ dbpc = "call"
    /\ globalDB = "nil" /\ globalDSN = <<>> /\ tmpDB = "nil" /\ tmpDSN = <<>>
    /\ pingErr = <<>> /\ opens = 0 /\ pings = 0 /\ createDBs = 0
    /\ maxIdle = <<>>

OpenNext ==
    \/ OpenDB
    \/ \E e \in PingResults : Ping(e)
    \/ \E ok \in BOOLEAN : CreateDatabase(ok)

OpenSpec == OpenInit /\ [][OpenNext]_vars

(* ----------------------------- createTables ---------------------------- *)

\* var allTables, as init() sets it
allTables ==
    <<"customer", "district", "history", "item", "new_order", "order_line",
      "orders", "region", "warehouse", "nation", "stock", "supplier">>

\* the tables of the statements of createTables, in the order of its
\* createTableDDL calls
createTablesStmts == <<"nation", "region", "supplier">>

Range(q) == {q[k] : k \in 1 .. Len(q)}

\* CREATE TABLE t (...) without the guard: an error when t exists
ExecCreateUnguarded(t, tbls, fault) ==
    IF fault \/ t \in tbls
    THEN [ok |-> FALSE, tables |-> tbls]
    ELSE [ok |-> TRUE, tables |-> tbls \cup {t}]

\* s.Conn.ExecContext(ctx, "CREATE TABLE IF NOT EXISTS t (...)") on a
\* database that holds tbls: the statement creates t or, when t exists,
\* does nothing; the database may fail it (fault), which changes nothing
ExecCreate(t, tbls, fault) ==
    IF fault
    THEN [ok |-> FALSE, tables |-> tbls]
    ELSE [ok |-> TRUE, tables |-> tbls \cup {t}]

\* what is kept of a call of createTables when it returns
CallRecord(res, tbls, issued, log, failed, faults) ==
    [res |-> res, before |-> ddlBefore.tables, after |-> tbls,
     issued |-> issued, log |-> log, failed |-> failed,
     injected |-> faults - ddlBefore.faults]

\* a step of createTables leaves the executor and openDB alone
DDLFrame == UNCHANGED <<config, executorVars, dbVars>>

\* a caller invokes w.createTables(ctx)
createTables ==
    /\ ddlpc = 0
    /\ Len(ddlHist) < MaxCalls
    /\ ddlpc' = 1
    /\ ddlBefore' = [tables |-> tables, faults |-> ddlFaults]
    /\ ddlIssued' = <<>> /\ ddlLog' = <<>> /\ ddlFailed' = <<>>
    /\ UNCHANGED <<tables, ddlHist, ddlFaults>>
    /\ DDLFrame

\* one createTableDDL call, with a bug: its error is kept but the next
\* statements are executed all the same, and the error returned at the end
createTableDDLContinues(fault) ==
    LET t == createTablesStmts[ddlpc]
        r == ExecCreate(t, tables, fault)
        log == ddlLog \o << <<"creating", t>>, <<"exec", t>> >>
        issued == Append(ddlIssued, t)
        failed == IF r.ok THEN ddlFailed ELSE Append(ddlFailed, t)
        faults == ddlFaults + (IF fault THEN 1 ELSE 0)
        last == ddlpc = Len(createTablesStmts)
    IN  /\ ddlpc \in 1 .. Len(createTablesStmts)
        /\ fault => ddlFaults < MaxFaults
        /\ tables' = r.tables
        /\ ddlLog' = log /\ ddlIssued' = issued /\ ddlFailed' = failed
        /\ ddlFaults' = faults
        /\ ddlpc' = IF last THEN 0 ELSE ddlpc + 1
        /\ ddlHist' = IF last
                      THEN Append(ddlHist,
                                  CallRecord(IF failed = <<>> THEN "nil" ELSE "err",
                                             r.tables, issued, log, failed, faults))
                      ELSE ddlHist
        /\ UNCHANGED ddlBefore
        /\ DDLFrame

\* the next `if err := w.createTableDDL(ctx, query, t, "creating")` of
\* createTables: fmt.Printf("%s %s\n", action, tableName), then ExecContext;
\* an error is returned by createTables at once, and after the last
\* statement createTables returns nil
createTableDDL(fault) ==
    LET t == createTablesStmts[ddlpc]
        r == ExecCreate(t, tables, fault)
        log == ddlLog \o << <<"creating", t>>, <<"exec", t>> >>
        issued == Append(ddlIssued, t)
        failed == IF r.ok THEN ddlFailed ELSE Append(ddlFailed, t)
        faults == ddlFaults + (IF fault THEN 1 ELSE 0)
        last == ddlpc = Len(createTablesStmts)
    IN  /\ ddlpc \in 1 .. Len(createTablesStmts)
        /\ fault => ddlFaults < MaxFaults
        /\ tables' = r.tables
        /\ ddlLog' = log /\ ddlIssued' = issued /\ ddlFailed' = failed
        /\ ddlFaults' = faults
        /\ ddlpc' = IF r.ok /\ ~last THEN ddlpc + 1 ELSE 0
        /\ ddlHist' = IF r.ok /\ ~last
                      THEN ddlHist
                      ELSE Append(ddlHist,
                                  CallRecord(IF r.ok THEN "nil" ELSE "err",
                                             r.tables, issued, log, failed, faults))
        /\ UNCHANGED ddlBefore
        /\ DDLFrame

\* createTables is called, once or several times in sequence, on a
\* database that holds any of its tables already
DDLInit ==
    /\ action = "prepare" /\ threads = 1 /\ totalCount = 0
    /\ dropData = FALSE /\ ignoreError = FALSE /\ silence = FALSE
    /\ ExecutorIdle
    /\ OpenIdle
    /\ tables \in SUBSET Range(createTablesStmts)
    /\ ddlpc = 0 /\ ddlBefore = [tables |-> {}, faults |-> 0]
    /\ ddlIssued = <<>> /\ ddlLog = <<>>
    /\ ddlFailed = <<>> /\ ddlHist = <<>> /\ ddlFaults = 0

DDLNext ==
    \/ createTables
    \/ \E fault \in BOOLEAN : createTableDDL(fault)

DDLSpec == DDLInit /\ [][DDLNext]_vars

(* ------------------------------- claims -------------------------------- *)

\* execute has returned in worker i (its deferred CleanupThread included)
Returned(i) == wpc[i] \in {"wrap", "done"}

\* the loop of worker i is over (execute is returning or has returned)
LoopOver(i) == wpc[i] \in {"defer", "wrap", "done"}

RECURSIVE SumRuns(_)
\* the Run calls of the workers 0 .. n-1
SumRuns(n) == IF n = 0 THEN 0 ELSE runCalls[n - 1] + SumRuns(n - 1)

\* q is the floor of totalCount / threads
IsFloor(q) == q * threads <= totalCount /\ totalCount < (q + 1) * threads

\* C1: in the run phase, once the shared context is cancelled no worker
\* begins a new Run call: a step taken with globalCtx cancelled leaves
\* every worker's number of begun Run calls as it is.
C1_NoRunAfterCancel ==
    [][\A i \in Workers : globalCtxDone => runCalls'[i] = runCalls[i]]_vars

\* C2: in the run phase, with no failing Run and no cancellation, a worker
\* whose loop is over has made exactly floor(totalCount / threads) Run
\* calls, no worker ever makes more, and once the loops of all workers are
\* over the Run calls add up to threads * floor(totalCount / threads) =
\* totalCount - totalCount mod threads: the remainder is run by nobody.
C2_FloorBudget ==
    (action = "run" /\ ~globalCtxDone) =>
        /\ \A i \in Workers : runCalls[i] * threads <= totalCount
        /\ \A i \in Workers :
              (LoopOver(i) /\ runFails[i] = 0) => IsFloor(runCalls[i])
        /\ (\A i \in Workers : LoopOver(i) /\ runFails[i] = 0) =>
              /\ SumRuns(threads) = totalCount - (totalCount % threads)
              /\ \E q \in 0 .. totalCount : IsFloor(q) /\ SumRuns(threads) = threads * q

\* C2's case: 3 iterations over 2 workers, nothing failed, nothing was
\* cancelled, both workers are done after one Run call each
C2_Witness ==
    /\ action = "run" /\ threads = 2 /\ totalCount = 3 /\ ~globalCtxDone
    /\ \A i \in Workers : wpc[i] = "done" /\ runFails[i] = 0 /\ runCalls[i] = 1

\* C3: in the run phase with totalCount = 0 a worker never finishes the
\* phase on its own: its loop is over only after a cancellation of the
\* shared context or an error of Run under the abort policy.
C3_ZeroCountIsUnbounded ==
    (action = "run" /\ totalCount = 0) =>
        \A i \in Workers : LoopOver(i) => (globalCtxDone \/ err[i])

\* C4: for every worker, InitThread is called exactly once and before any
\* Prepare, Cleanup or Run call, and CleanupThread is called exactly once
\* when execute returns, on each of its return paths, and no Prepare,
\* Cleanup, Run or InitThread call of the worker follows it.
C4_ThreadBracket ==
    /\ [](\A i \in Workers :
            /\ initCalls[i] <= 1 /\ ctCalls[i] <= 1
            /\ (prepCalls[i] + cleanCalls[i] + runCalls[i] > 0) => initCalls[i] = 1
            /\ (wpc[i] \in {"cleanup", "prepare", "loop", "inrun", "defer"}) =>
                   (initCalls[i] = 1 /\ ctCalls[i] = 0)
            /\ Returned(i) => (initCalls[i] = 1 /\ ctCalls[i] = 1))
    /\ [][\A i \in Workers :
            ctCalls[i] >= 1 =>
                /\ initCalls'[i] = initCalls[i]
                /\ prepCalls'[i] = prepCalls[i]
                /\ cleanCalls'[i] = cleanCalls[i]
                /\ runCalls'[i] = runCalls[i]]_vars

\* C4's case: the shared context was cancelled by a signal, one worker
\* left execute on an error of Run and the other at the end of its loop
C4_Witness ==
    /\ action = "run" /\ threads = 2 /\ sigHandled = 1 /\ globalCtxDone
    /\ wpc[0] = "done" /\ err[0] /\ runCalls[0] >= 1 /\ ctCalls[0] = 1
    /\ wpc[1] = "done" /\ ~err[1] /\ runCalls[1] >= 1 /\ ctCalls[1] = 1

\* C5: an executeWorkload that has returned has made exactly one final
\* flush (the measurement.Output after "Finished"), one that has not
\* returned has made none, whatever ticks fired and however the workers and
\* the reporter ended.
C5_OneFinalFlush ==
    /\ finalOut = (IF opc = "returned" THEN 1 ELSE 0)
    /\ finished <=> (opc = "returned")

\* C5's case: executeWorkload returned after a tick, with a worker that
\* ended on an error and after a signal cancelled the shared context
C5_Witness ==
    /\ opc = "returned" /\ finalOut = 1 /\ ticks >= 1
    /\ \E i \in Workers : err[i]
    /\ sigHandled >= 1

\* C6: when the timeout case of the listener's select fires (which needs a
\* first signal), the process is exited with status 1 and main has not
\* returned, and this stays so: graceful completion is out of reach.
C6_TimeoutForcesExit ==
    timedOut =>
        /\ sigHandled >= 1
        /\ proc = "exited" /\ exitStatus = 1
        /\ mpc # "done"

\* C6's case: the timeout fired while a worker was still inside Run
C6_Witness ==
    /\ timedOut /\ exitStatus = 1
    /\ \E i \in Workers : wpc[i] = "inrun"

\* C7: the listener calls cancel() exactly once, when it receives the
\* first signal; a second signal it receives makes no further call and
\* exits the process; and the shared context, once cancelled, stays
\* cancelled.
C7_CancelOnce ==
    /\ [](/\ listenerCancels = (IF sigHandled >= 1 THEN 1 ELSE 0)
          /\ sigHandled <= 2
          /\ (sigHandled >= 1) => globalCtxDone
          /\ (sigHandled = 2) => (lpc = "exit" /\ proc = "exited"))
    /\ [][globalCtxDone => globalCtxDone']_vars

\* C7's case: the listener has received two signals
C7_Witness ==
    sigHandled = 2 /\ listenerCancels = 1 /\ globalCtxDone

\* C8: a second signal received by the listener exits the process with
\* status 1, whatever the workers are doing and without the timeout (the
\* branch is enabled as soon as the signal is there); a process whose main
\* returned has status 0.
C8_ExitStatus ==
    /\ (sigHandled = 2) => (proc = "exited" /\ exitStatus = 1 /\ mpc # "done")
    /\ (proc = "running" /\ lpc = "select" /\ sc > 0) => ENABLED SecondSignal
    /\ (mpc = "done") => (proc = "exited" /\ exitStatus = 0)
    /\ (proc = "exited") <=> (exitStatus \in {0, 1})

\* C8's case: the second signal ended the process while a worker was
\* inside Run and the timeout had not fired
C8_Witness ==
    /\ sigHandled = 2 /\ exitStatus = 1 /\ ~timedOut
    /\ \E i \in Workers : wpc[i] = "inrun"

\* C9: when "Finished" is printed, and when main has returned, every one
\* of the threads workers has been spawned and is done, its CleanupThread
\* call included, the reporter has stopped and its acknowledgement has
\* been received from ch.
C9_JoinBeforeFinished ==
    (opc \in {"cancel", "recv", "finish", "returned"} \/ finished \/ mpc = "done") =>
        /\ spawned = threads /\ wg = 0
        /\ \A i \in Workers : wpc[i] = "done" /\ ctCalls[i] = 1
        /\ (finished \/ mpc = "done") => (rpc = "done" /\ ch = 0)

\* C9's case: graceful completion after a cancellation, with two workers
C9_Witness ==
    /\ mpc = "done" /\ finished /\ threads = 2 /\ sigHandled = 1
    /\ \A i \in Workers : wpc[i] = "done"

\* C10: a failure in one worker changes nothing of another worker and does
\* not cancel the shared context; a worker without a failure of its own
\* makes all the calls of its phase whatever happened to its siblings; and
\* the shared context becomes cancelled only by the listener receiving a
\* signal or by main's cancel() after the command returned.
C10_ErrorsStayLocal ==
    /\ [](\A j \in Workers :
            (wpc[j] = "done" /\ ~err[j] /\ runFails[j] = 0) =>
                CASE action = "run" -> runCalls[j] = count
                  [] action = "prepare" ->
                         prepCalls[j] = 1 /\ cleanCalls[j] = (IF dropData THEN 1 ELSE 0)
                  [] OTHER -> cleanCalls[j] = 1)
    /\ [][\A i \in Workers :
            (err'[i] /\ ~err[i]) =>
                /\ globalCtxDone' = globalCtxDone
                /\ \A j \in Workers \ {i} :
                      /\ wpc'[j] = wpc[j] /\ iter'[j] = iter[j]
                      /\ err'[j] = err[j] /\ runCalls'[j] = runCalls[j]]_vars
    /\ [][(~globalCtxDone /\ globalCtxDone') =>
            \/ sigHandled' = sigHandled + 1
            \/ (opc = "returned" /\ mpc' = "return")]_vars

\* C10's case: worker 0 ended on an error of Run, worker 1 made its full
\* budget of Run calls, and the shared context is not cancelled
C10_Witness ==
    /\ action = "run" /\ threads = 2 /\ ~globalCtxDone
    /\ err[0] /\ wpc[0] = "done"
    /\ wpc[1] = "done" /\ runFails[1] = 0 /\ runCalls[1] = count /\ count >= 1

\* C11: in the run phase, under the default policy a worker has at most
\* one failed Run, after which it begins no Run call, its loop is over and
\* execute returns the error, which the worker's goroutine prints; under
\* ignoreError no failure makes execute return an error, every failure is
\* printed (without silence), and the worker's loop is over only when it
\* has made all count Run calls.
C11_RunErrorPolicy ==
    /\ [](action = "run" =>
            \A i \in Workers :
                IF ignoreError
                THEN /\ ~err[i]
                     /\ ~silence => logs[i] = runFails[i]
                     /\ runFails[i] <= runCalls[i]
                     /\ LoopOver(i) => runCalls[i] = count
                ELSE /\ runFails[i] <= 1
                     /\ (runFails[i] = 1) <=> err[i]
                     /\ err[i] => LoopOver(i)
                     /\ (~silence /\ wpc[i] = "done") => logs[i] = runFails[i])
    /\ [][\A i \in Workers :
            (~ignoreError /\ runFails[i] >= 1) => runCalls'[i] = runCalls[i]]_vars

\* C11's case: under ignoreError a worker with a budget of at least two
\* Run calls had a failure and went on to use the budget up
C11_Witness ==
    /\ action = "run" /\ ignoreError /\ count >= 2
    /\ runFails[0] >= 1 /\ wpc[0] = "done" /\ runCalls[0] = count

\* C12: in the run phase with silence set, no "execute ... failed" line is
\* printed for any worker.
C12_SilentNoLog ==
    (action = "run" /\ silence) => \A i \in Workers : logs[i] = 0

\* C13: in "prepare" Cleanup is called (once, before Prepare) exactly
\* under dropData and Prepare is called only when that Cleanup did not
\* fail; in "cleanup" only Cleanup is called; Run is called in neither, and
\* after a failure the worker makes no further call of the phase.
C13_PrepareCleanupSteps ==
    /\ [](action \in {"prepare", "cleanup"} =>
            \A i \in Workers :
                /\ runCalls[i] = 0
                /\ cleanCalls[i] <= 1 /\ prepCalls[i] <= 1
                /\ err[i] => LoopOver(i)
                /\ (action = "cleanup") =>
                       (prepCalls[i] = 0 /\ (LoopOver(i) => cleanCalls[i] = 1))
                /\ (action = "prepare") =>
                       /\ (cleanCalls[i] > 0) => dropData
                       /\ (prepCalls[i] = 1) =>
                              cleanCalls[i] = (IF dropData THEN 1 ELSE 0)
                       /\ (LoopOver(i) /\ prepCalls[i] = 0) =>
                              (dropData /\ cleanCalls[i] = 1 /\ err[i]))
    /\ [][\A i \in Workers :
            err[i] => /\ prepCalls'[i] = prepCalls[i]
                      /\ cleanCalls'[i] = cleanCalls[i]
                      /\ runCalls'[i] = runCalls[i]]_vars

\* C13's case: "prepare" under dropData, worker 0 stopped at a failed
\* Cleanup without calling Prepare, worker 1 called Cleanup and Prepare
C13_Witness ==
    /\ action = "prepare" /\ dropData /\ threads = 2
    /\ wpc[0] = "done" /\ err[0] /\ cleanCalls[0] = 1 /\ prepCalls[0] = 0
    /\ wpc[1] = "done" /\ ~err[1] /\ cleanCalls[1] = 1 /\ prepCalls[1] = 1

\* C19: when the final flush is made every worker is done and the reporter
\* has returned and its acknowledgement has been received; the reporter
\* makes no periodic output once it has acknowledged, so none follows the
\* final flush, and no Run call begins or ends after it.
C19_FinalFlushLast ==
    /\ [](finalOut >= 1 =>
            /\ spawned = threads
            /\ \A i \in Workers : wpc[i] = "done"
            /\ rpc = "done" /\ ch = 0)
    /\ [][rpc = "done" => ticks' = ticks]_vars
    /\ [][finalOut >= 1 =>
            (ticks' = ticks /\ runCalls' = runCalls /\ wpc' = wpc /\ finalOut' = finalOut)]_vars

\* C19's case: the final flush was made after a periodic output and after
\* Run calls
C19_Witness ==
    /\ finalOut = 1 /\ ticks >= 1
    /\ \E i \in Workers : runCalls[i] >= 1

\* C20: executeWorkload never deadlocks on the reporter handshake.  While
\* the process runs and executeWorkload has been called and has not
\* returned, one of its goroutines can take a step (the orchestrator, a
\* worker, or the reporter stopping: no tick is needed), whatever the
\* workers, the ticker, outputCancel() and the cancellation of the shared
\* context have done so far; its only loops, the spawn loop and each
\* worker's loop, are counted up to threads and to count, so the call
\* returns when every worker does.  At <-ch the orchestrator can receive or
\* the reporter can still post; when outputCtx is done the reporter's send
\* can be made at once; ch never holds more than its one slot, a value
\* enters ch only as the reporter returns and leaves it only at the
\* orchestrator's <-ch.
C20_NoHandshakeDeadlock ==
    /\ []((proc = "running" /\ opc \notin {"idle", "returned"}) => ENABLED WorkloadStep)
    /\ []((proc = "running" /\ opc = "recv") => (ENABLED RecvAck \/ ENABLED ReporterStop))
    /\ []((proc = "running" /\ rpc = "loop" /\ outputCtxDone) => ENABLED ReporterStop)
    /\ [](spawned <= threads /\ \A i \in Workers : iter[i] <= count)
    /\ [][spawned' >= spawned /\ \A i \in Workers : iter'[i] >= iter[i]]_vars
    /\ [](ch <= ChCap)
    /\ [][ch' > ch => (rpc = "loop" /\ rpc' = "done")]_vars
    /\ [][ch' < ch => (opc = "recv" /\ rpc = "done")]_vars

\* C20's case: the shared context was cancelled while a worker was inside
\* Run, the reporter has already posted its acknowledgement
C20_Witness ==
    /\ sigHandled = 1 /\ rpc = "done" /\ ch = 1
    /\ \E i \in Workers : wpc[i] = "inrun"

\* C16: whenever openDB has returned with a usable pool (globalDB is not
\* nil), on the path where Ping succeeded and on the path where the
\* database was missing and has been created, SetMaxIdleConns has been
\* called on it with threads + acThreads + 1.
C16_IdleBudgetSized ==
    (dbpc = "returned" /\ globalDB = "open") =>
        maxIdle = <<threads + acThreads + 1>>

\* C17: when Ping fails with an error that is not "database does not
\* exist", openDB returns after that single Ping, with no CREATE DATABASE
\* and no second connection, and with globalDB = nil, which is what the
\* caller can observe; globalDB is nil after openDB returned in that case
\* only.
C17_OtherErrorLeavesNil ==
    /\ pings <= 1
    /\ (pingErr # <<>> /\ ~isDBNotExist(pingErr)) =>
           /\ dbpc = "returned"
           /\ globalDB = "nil"
           /\ opens = 1 /\ pings = 1 /\ createDBs = 0 /\ tmpDB = "nil"
           /\ maxIdle = <<>>
    /\ (dbpc = "returned" /\ globalDB = "nil") =>
           (pingErr # <<>> /\ ~isDBNotExist(pingErr))

\* C17's case: with the postgres driver, Ping failed with a message that
\* ends in "does not exist" but is not about the database
C17_Witness ==
    /\ driver = pgDriver /\ pingErr = PgNoRole
    /\ dbpc = "returned" /\ globalDB = "nil" /\ pings = 1

\* C18: with a driver that is neither mysql nor postgres, openDB panics at
\* its first statement: no sql.Open, no Ping and no CREATE DATABASE is ever
\* made, globalDB stays nil, and nothing follows the panic.
C18_UnknownDriverPanics ==
    /\ [](driver \notin {mysqlDriver, pgDriver} =>
            /\ dbpc \in {"call", "panicked"}
            /\ opens = 0 /\ pings = 0 /\ createDBs = 0
            /\ globalDB = "nil" /\ tmpDB = "nil")
    /\ [][dbpc = "panicked" => UNCHANGED dbVars]_vars

\* C18's case: openDB has panicked on the unknown driver
C18_Witness ==
    driver = otherDriver /\ dbpc = "panicked" /\ opens = 0 /\ pings = 0

\* C14: a createTables call during which the database fails no statement
\* returns nil and leaves every table that existed plus nation, region and
\* supplier; made after a call that returned nil it leaves the set of
\* tables as that call left it; made after a call that failed it keeps the
\* tables that call left and adds exactly the missing ones.
C14_CreateTablesIdempotent ==
    \A k \in 1 .. Len(ddlHist) :
        LET h == ddlHist[k] IN
        /\ (h.injected = 0) =>
               (h.res = "nil" /\ h.after = h.before \cup {"nation", "region", "supplier"})
        /\ (k > 1) =>
               LET g == ddlHist[k - 1] IN
               /\ h.before = g.after
               /\ (g.res = "nil" /\ h.injected = 0) =>
                      (h.res = "nil" /\ h.after = g.after)
               /\ (g.res = "err" /\ h.injected = 0) =>
                      /\ h.res = "nil"
                      /\ g.after \subseteq h.after
                      /\ h.after \ g.after = {"nation", "region", "supplier"} \ g.after

\* C14's case: on an empty database the first call created nation and
\* failed at region, the second call returned nil with the three tables
C14_Witness ==
    /\ Len(ddlHist) = 2
    /\ ddlHist[1].res = "err" /\ ddlHist[1].before = {} /\ ddlHist[1].after = {"nation"}
    /\ ddlHist[2].res = "nil" /\ ddlHist[2].after = {"nation", "region", "supplier"}

\* what C15 says of a call h of createTables, for the tables `order`: the
\* statements executed are a prefix of order, all of it when the call
\* returns nil and up to the failed statement when it returns an error;
\* each is preceded by its progress line; no table is dropped.
DDLContract(h, order) ==
    /\ Len(h.issued) <= Len(order)
    /\ \A j \in 1 .. Len(h.issued) : h.issued[j] = order[j]
    /\ (h.res = "nil") => (h.issued = order /\ h.failed = <<>>)
    /\ (h.res = "err") =>
           (Len(h.issued) >= 1 /\ h.failed = <<h.issued[Len(h.issued)]>>)
    /\ Len(h.log) = 2 * Len(h.issued)
    /\ \A j \in 1 .. Len(h.issued) :
           /\ h.log[2 * j - 1] = <<"creating", h.issued[j]>>
           /\ h.log[2 * j] = <<"exec", h.issued[j]>>
    /\ h.before \subseteq h.after
    /\ \A j \in 1 .. Len(h.issued) :
           (h.issued[j] \notin Range(h.failed)) => h.issued[j] \in h.after

\* C15 as claimed: every call of createTables executes one statement for
\* each table of allTables, in that order, a progress line before each,
\* stops at the first failure and drops nothing.
C15_AllTablesCreated ==
    \A k \in 1 .. Len(ddlHist) : DDLContract(ddlHist[k], allTables)

\* C15 as amended: every call of createTables executes one statement for
\* each of nation, region and supplier (three of the twelve tables of
\* allTables), in that order, a progress line before each, stops at the
\* first failure and drops nothing.
C15_ThreeTablesCreated ==
    /\ {"nation", "region", "supplier"} \subseteq Range(allTables)
    /\ \A k \in 1 .. Len(ddlHist) :
           DDLContract(ddlHist[k], <<"nation", "region", "supplier">>)

\* C15's case: a call that created nation, failed at region and issued
\* nothing for supplier
C15_Witness ==
    /\ Len(ddlHist) >= 1
    /\ ddlHist[1].res = "err" /\ ddlHist[1].issued = <<"nation", "region">>
    /\ ddlHist[1].before = {} /\ ddlHist[1].after = {"nation"}

=============================================================================
